---- MODULE Spec2Model ----
(***************************************************************************)
(* Run storage of the sanitiser dashboard (src/source/run_storage.py).     *)
(*                                                                         *)
(* The filesystem under runs/ is the state: one directory per run_id with  *)
(* meta.json, events.jsonl, requests.jsonl, timing.json and reports/.      *)
(* RunStorage holds no lock, so every filesystem access of a method is a   *)
(* step of its own and the callers' steps interleave.                      *)
(***************************************************************************)
EXTENDS Integers, Sequences, FiniteSets, TLC

\* ------------------------------------------------------------- bounds
MaxClock == 2
MaxFaults == 1
MaxCalls == 5
MaxCreates == 11
MaxPathLen == 3

\* Calls made by a single caller outside the full scenario, calls made in
\* all by two interleaved callers, and by two callers that only race.
MaxSerialCalls == MaxCalls - 1
MaxRaceCalls == MaxCalls - 2
MaxPairCalls == MaxCalls - 3

\* ------------------------------------------------------------- values
Callers == {"w1", "w2"}
Times == 1..MaxClock

\* Optional[x]: None is the empty tuple, a present value v is <<v>>.
None == <<>>
Some(v) == <<v>>

\* No collision counter outgrows the number of calls made.
MaxSuffix == MaxCreates

\* strftime("%Y%m%d-%H%M%S") of the second t: the bare timestamp id.
_generate_run_id(t) == <<t>>

\* f"{_generate_run_id()}-{counter}"
SuffixedRunId(t, counter) == <<t, counter>>

\* The ids that create_run can generate while no counter exceeds n.
RunIdsWithin(n) == {_generate_run_id(t) : t \in Times}
                     \cup {SuffixedRunId(t, k) : t \in Times, k \in 0..n}

RunIds == RunIdsWithin(MaxSuffix)

\* The run ids that callers pass to update_run and the push_* methods: the
\* id of a run made in the first second, absent until then.
OpRunIds == {_generate_run_id(1)}

\* _run_dir("..") is runs_path / "..", the data path itself, which exists
\* from the start; it is written as the id of a second that no clock shows.
DataDir == <<0>>

\* The run ids that callers pass to delete_run.
DeleteRunIds == {_generate_run_id(1)}

Targets == {"docs/x"}
Modes == {"analyse"}
Descriptions == {Some("d")}
Statuses == {"completed"}
SummaryOk == {<<"ok", TRUE>>}
\* The message and summary arguments of update_run: both left out, both
\* given, and an empty summary.
UpdateInputs == {[message |-> None, summary |-> None],
                 [message |-> Some("m"), summary |-> Some(SummaryOk)],
                 [message |-> None, summary |-> Some({})]}
EventInputs == {[message |-> "e", timestamp |-> None]}
RequestInputs == {[service |-> "s", timestamp |-> None, sequence |-> None]}
TimingBatches == {<<"A">>, <<"B">>}

\* Timestamps are ISO strings, written here as the second they name; the
\* empty string is written 0. A caller's own timestamp names a second that
\* the store's clock never shows.
EmptyText == 0
CallerTime == MaxClock + 1
StampInputs == {None, Some(EmptyText), Some(CallerTime)}
StampEventInputs == {[message |-> "e", timestamp |-> ts] : ts \in StampInputs}
StampRequestInputs ==
    {[service |-> "s", timestamp |-> ts, sequence |-> None] : ts \in StampInputs}

\* Python truthiness of an Optional[str] and of an Optional[dict] argument.
TruthyStr(o) == o # None /\ o[1] # ""
TruthyDict(o) == o # None /\ o[1] # {}

\* ------------------------------------------------------------- files
\* meta.json: absent, unparsable text, or the JSON of a metadata dict.
NullMeta == [run_id |-> None, target |-> "", mode |-> "", status |-> "",
             created |-> 0, updated |-> 0, description |-> None,
             summary |-> None, status_message |-> None]
MetaAbsent == [st |-> "absent", data |-> NullMeta]
MetaCorrupt == [st |-> "corrupt", data |-> NullMeta]
MetaFile(m) == [st |-> "ok", data |-> m]

\* *.jsonl: absent, or a sequence of lines; a line is blank (None) or the
\* JSON of one record (Some(record)).
NoJsonl == [exists |-> FALSE, lines |-> <<>>]
\* timing.json: absent, the JSON of the array of entries ("ok"), text that
\* is no JSON ("corrupt"), or the JSON of a value that is no array
\* ("object").
NoTiming == [st |-> "absent", data |-> <<>>]
TimingFile(es) == [st |-> "ok", data |-> es]
CorruptTiming == [st |-> "corrupt", data |-> <<>>]
ObjectTiming == [st |-> "object", data |-> <<>>]

\* What json.loads returns for the JSON of a value that is no array.
NotAnArray == [json |-> "object"]

VARIABLES
    clock,      \* the UTC clock, in seconds
    root,       \* whether the directory runs/ itself exists
    dirs,       \* run ids whose directory runs/{run_id} exists
    reports,    \* run ids whose runs/{run_id}/reports exists
    meta,       \* run id -> content of meta.json
    events,     \* run id -> content of events.jsonl
    requests,   \* run id -> content of requests.jsonl
    timing,     \* run id -> content of timing.json
    faults,     \* metadata writes that failed so far
    left,       \* calls that the callers still make
    pc,         \* caller -> where it is in its current method
    call,       \* caller -> the method it runs and its arguments
    loc,        \* caller -> the method's local variables
    result,     \* caller -> what the method returned or raised
    hist        \* run id -> what its callers did and were told since the
                \* directory was made

vars == <<clock, root, dirs, reports, meta, events, requests, timing, faults, left,
          pc, call, loc, result, hist>>
fs == <<root, dirs, reports, meta, events, requests, timing>>

NoCall == [kind |-> "none", run_id |-> None]
NoLoc == [run_id |-> None, counter |-> 0, now |-> 0, sequence |-> 0,
          data |-> None, existing |-> <<>>, meta |-> NullMeta]
NoResult == [ok |-> FALSE, err |-> "none", val |-> None]
Ok(v) == [ok |-> TRUE, err |-> "none", val |-> v]
Raise(e) == [ok |-> FALSE, err |-> e, val |-> None]

\* created: successful create_run calls that returned the id; ev, rq: the
\* sequence numbers push_event and push_request returned, in order; tm: the
\* entries push_timing reported stored; msgs, sums: the status messages and
\* summaries that update_run calls wrote; upd: the last successful update;
\* deleted: a delete_run succeeded and no create_run returned the id since.
NoHist == [created |-> 0, ev |-> <<>>, rq |-> <<>>, tm |-> <<>>,
           msgs |-> {}, sums |-> {}, upd |-> None, deleted |-> FALSE]

\* The state after RunStorage(data_path) on an empty data path, with the
\* callers cs about to make n calls in all.
InitWith(cs, n) ==
    /\ clock = 1
    /\ root = TRUE
    /\ dirs = {}
    /\ reports = {}
    /\ meta = [r \in RunIdsWithin(n) |-> MetaAbsent]
    /\ events = [r \in RunIdsWithin(n) |-> NoJsonl]
    /\ requests = [r \in RunIdsWithin(n) |-> NoJsonl]
    /\ timing = [r \in RunIdsWithin(n) |-> NoTiming]
    /\ faults = 0
    /\ left = n
    /\ pc = [p \in Callers |-> IF p \in cs THEN "idle" ELSE "off"]
    /\ call = [p \in Callers |-> NoCall]
    /\ loc = [p \in Callers |-> NoLoc]
    /\ result = [p \in Callers |-> NoResult]
    /\ hist = [r \in RunIdsWithin(n) |-> NoHist]

\* The ids whose files the state records: every id that the n calls of the
\* callers can generate, since each pass of the collision loop needs one
\* more existing directory.
KnownRunIds == DOMAIN meta

\* ------------------------------------------------------------- helpers
\* _now_iso(): the clock, read when called.
_now_iso == clock

_read_meta_Default(r) ==
    IF meta[r].st = "absent" THEN Ok(Some(NullMeta))
    ELSE IF meta[r].st = "corrupt" THEN Raise("JSONDecodeError")
    ELSE Ok(Some(meta[r].data))

\* _read_meta: None when meta.json is absent, JSONDecodeError when it is
\* unparsable, else the dict.
_read_meta(r) ==
    IF meta[r].st = "absent" THEN Ok(None)
    ELSE IF meta[r].st = "corrupt" THEN Raise("JSONDecodeError")
    ELSE Ok(Some(meta[r].data))

\* _count_lines: 0 when the file is absent, else its non-blank lines.
RECURSIVE NonBlank(_)
NonBlank(ls) ==
    IF ls = <<>> THEN <<>>
    ELSE IF Head(ls) # None THEN <<Head(ls)>> \o NonBlank(Tail(ls))
    ELSE NonBlank(Tail(ls))
_count_lines(f) == IF ~f.exists THEN 0 ELSE Len(NonBlank(f.lines))

NextSequence_ZeroBased(count) == count

\* _append_jsonl, line 78: the sequence number from the count read.
NextSequence(count) == count + 1

AppendLine_Truncating(f, data) == [exists |-> TRUE, lines |-> <<Some(data)>>]

AppendLine_Prepending(f, data) ==
    [exists |-> TRUE, lines |-> <<Some(data)>> \o f.lines]

\* _append_jsonl, lines 79-80: open(path, "a") and write one JSON line.
AppendLine(f, data) == [exists |-> TRUE, lines |-> Append(f.lines, Some(data))]

\* _read_jsonl: [] when the file is absent, else the parsed non-blank lines.
_read_jsonl(f) ==
    IF ~f.exists THEN <<>>
    ELSE [i \in 1..Len(NonBlank(f.lines)) |-> NonBlank(f.lines)[i][1]]

\* _to_detail, lines 193-200: 0 when timing.json is absent or unreadable,
\* the length of the stored array, and 1 for a value that is no array.
TimingCount(r) ==
    IF timing[r].st = "ok" THEN Len(timing[r].data)
    ELSE IF timing[r].st = "object" THEN 1
    ELSE 0

EventCountFile_Requests(r) == requests[r]

\* _to_detail, line 211: the stream counted into event_count.
EventCountFile(r) == events[r]

\* _to_detail, line 212: the stream counted into request_count.
RequestCountFile(r) == requests[r]

_to_detail(r, m) ==
    [run_id |-> r, target |-> m.target, mode |-> m.mode, status |-> m.status,
     created |-> m.created, updated |-> m.updated,
     description |-> m.description, summary |-> m.summary,
     event_count |-> _count_lines(EventCountFile(r)),
     request_count |-> _count_lines(RequestCountFile(r)),
     timing_count |-> TimingCount(r)]

\* ------------------------------------------------------------- reads
get_run(r) ==
    LET m == _read_meta(r) IN
    IF ~m.ok THEN Raise(m.err)
    ELSE IF m.val = None THEN Raise("FileNotFoundError")
    ELSE Ok(_to_detail(r, m.val[1]))

get_events_Lenient(r) == Ok(_read_jsonl(events[r]))

get_events(r) ==
    IF r \notin dirs THEN Raise("FileNotFoundError")
    ELSE Ok(_read_jsonl(events[r]))

get_requests(r) ==
    IF r \notin dirs THEN Raise("FileNotFoundError")
    ELSE Ok(_read_jsonl(requests[r]))

get_timing(r) ==
    IF r \notin dirs THEN Raise("FileNotFoundError")
    ELSE IF timing[r].st = "absent" THEN Ok(<<>>)
    ELSE IF timing[r].st = "corrupt" THEN Raise("JSONDecodeError")
    ELSE IF timing[r].st = "object" THEN Ok(NotAnArray)
    ELSE Ok(timing[r].data)

\* ------------------------------------------------------------- listing
\* str(n): the decimal digits of a collision counter, as character codes.
RECURSIVE Digits(_)
Digits(n) == IF n < 10 THEN <<48 + n>> ELSE Digits(n \div 10) \o <<48 + (n % 10)>>

\* The directory name of a run id: the timestamp, of fixed width, counted as
\* one character, then "-" (code 45) and the counter's digits if any.
RunName(id) ==
    IF Len(id) = 1 THEN <<id[1]>> ELSE <<id[1], 45>> \o Digits(id[2])

\* The order of str (and of Path): character by character, a proper prefix
\* first.
RECURSIVE LexLess(_, _)
LexLess(a, b) ==
    IF b = <<>> THEN FALSE
    ELSE IF a = <<>> THEN TRUE
    ELSE IF Head(a) # Head(b) THEN Head(a) < Head(b)
    ELSE LexLess(Tail(a), Tail(b))

\* sorted(self.runs_path.iterdir(), reverse=True)
RECURSIVE SortedReverse(_)
SortedReverse(ids) ==
    IF ids = {} THEN <<>>
    ELSE LET top == CHOOSE r \in ids :
                      \A q \in ids \ {r} : LexLess(RunName(q), RunName(r))
         IN <<top>> \o SortedReverse(ids \ {top})

\* list_runs, lines 169-170: the entries that are skipped.
Skipped(r) == meta[r].st = "absent"

_to_summary(r, m) ==
    [run_id |-> r, target |-> m.target, mode |-> m.mode, status |-> m.status,
     created |-> m.created, updated |-> m.updated,
     description |-> m.description,
     event_count |-> _count_lines(events[r]),
     request_count |-> _count_lines(requests[r])]

\* list_runs: every entry of runs/ is a run directory; _read_meta raises on
\* unparsable metadata and nothing catches it.
list_runs ==
    IF \E r \in dirs : ~_read_meta(r).ok THEN Raise("JSONDecodeError")
    ELSE LET kept == SelectSeq(SortedReverse(dirs), LAMBDA r : ~Skipped(r))
         IN Ok([i \in 1..Len(kept) |-> _to_summary(kept[i], _read_meta(kept[i]).val[1])])

\* ------------------------------------------------------------- stats
LatestRun_Last(runs) == IF runs # <<>> THEN Some(runs[Len(runs)].run_id) ELSE None

\* get_stats, line 336: runs[0].run_id if runs else None
LatestRun(runs) == IF runs # <<>> THEN Some(runs[1].run_id) ELSE None

\* get_stats, lines 329-331: the loop over the listing that counts into the
\* dict by_status, which holds a key for every status met.
RECURSIVE CountByStatus(_, _)
CountByStatus(runs, by_status) ==
    IF runs = <<>> THEN by_status
    ELSE LET st == Head(runs).status
             seen == IF st \in DOMAIN by_status THEN by_status[st] ELSE 0
         IN CountByStatus(Tail(runs),
              [s \in DOMAIN by_status \cup {st} |->
                 IF s = st THEN seen + 1 ELSE by_status[s]])

\* get_stats: an exception of list_runs is not caught.
get_stats ==
    LET runs == list_runs IN
    IF ~runs.ok THEN Raise(runs.err)
    ELSE Ok([total_runs |-> Len(runs.val),
             by_status |-> CountByStatus(runs.val, [s \in {} |-> 0]),
             latest_run |-> LatestRun(runs.val)])

\* ------------------------------------------------------------- steps
Set(f, p, v) == [f EXCEPT ![p] = v]

\* A free caller makes its next call.
Begin(p) ==
    /\ pc[p] = "idle"
    /\ left > 0
    /\ left' = left - 1

\* What a caller leaves behind when its method returns or raises.
Finish(p, res) ==
    /\ pc' = Set(pc, p, "ret")
    /\ result' = Set(result, p, res)

FirstCounter_Zero == 1 - 1

\* create_run, line 104: the first collision counter.
FirstCounter == 1

InitialMeta_NoDescription(r, request, now) ==
    [run_id |-> Some(r), target |-> request.target, mode |-> request.mode,
     status |-> "created", created |-> now, updated |-> now,
     description |-> None, summary |-> None, status_message |-> None]

\* create_run, lines 113-123: the initial metadata.
InitialMeta(r, request, now) ==
    [run_id |-> Some(r), target |-> request.target, mode |-> request.mode,
     status |-> "created", created |-> now, updated |-> now,
     description |-> request.description, summary |-> None,
     status_message |-> None]

\* create_run, lines 126-133: the response.
CreateRunResponse(r, request, now) ==
    [run_id |-> r, target |-> request.target, mode |-> request.mode,
     status |-> "created", created |-> now]

MkdirRefuses_ExistOk(existing, r) == FALSE

\* create_run, lines 110-111: mkdir without exist_ok refuses a path that
\* exists already.
MkdirRefuses(existing, r) == r \in existing

\* _write_meta: write_text either stores the JSON, or fails leaving the file
\* as it was (open failed) or truncated (the write failed).
WriteMetaOutcomes(r, m) ==
    {[ok |-> TRUE, file |-> MetaFile(m)]}
      \cup (IF faults < MaxFaults
            THEN {[ok |-> FALSE, file |-> meta[r]],
                  [ok |-> FALSE, file |-> MetaCorrupt]}
            ELSE {})

\* create_run, line 100-101 and 104.
create_run_begin(p) ==
    /\ Begin(p)
    /\ \E tg \in Targets, md \in Modes, ds \in Descriptions :
         call' = Set(call, p, [kind |-> "create_run", run_id |-> None,
                               request |-> [target |-> tg, mode |-> md,
                                            description |-> ds]])
    /\ loc' = Set(loc, p, [NoLoc EXCEPT !.run_id = Some(_generate_run_id(clock)),
                                        !.counter = FirstCounter])
    /\ pc' = Set(pc, p, "create_exists")
    /\ UNCHANGED <<clock, fs, faults, result, hist>>

NextCounter_Same(counter) == counter

\* create_run, line 108: counter += 1.
NextCounter(counter) == counter + 1

\* create_run, lines 105-108: one test of the while condition.
create_run_exists(p) ==
    /\ pc[p] = "create_exists"
    /\ IF loc[p].run_id[1] \in dirs
       THEN /\ SuffixedRunId(clock, loc[p].counter) \in KnownRunIds
            /\ loc' = Set(loc, p,
                 [loc[p] EXCEPT !.run_id = Some(SuffixedRunId(clock, loc[p].counter)),
                                !.counter = NextCounter(loc[p].counter)])
            /\ pc' = pc
       ELSE /\ loc' = loc
            /\ pc' = Set(pc, p, "create_mkdir")
    /\ UNCHANGED <<left, clock, fs, faults, call, result, hist>>

\* create_run, line 110: mkdir(parents=True) makes runs/ as well if need be.
create_run_mkdir(p) ==
    /\ pc[p] = "create_mkdir"
    /\ LET r == loc[p].run_id[1] IN
       IF MkdirRefuses(dirs, r)
       THEN /\ Finish(p, Raise("FileExistsError"))
            /\ UNCHANGED <<root, dirs, hist>>
       ELSE /\ root' = TRUE
            /\ dirs' = dirs \cup {r}
            /\ hist' = IF r \in dirs THEN hist
                       ELSE Set(hist, r, [NoHist EXCEPT !.deleted = hist[r].deleted])
            /\ pc' = Set(pc, p, "create_reports")
            /\ result' = result
    /\ UNCHANGED <<left, clock, reports, meta, events, requests, timing, faults,
                   call, loc>>

\* create_run, lines 111 and 113.
create_run_reports(p) ==
    /\ pc[p] = "create_reports"
    /\ LET r == loc[p].run_id[1] IN
       IF r \notin dirs
       THEN /\ Finish(p, Raise("FileNotFoundError"))
            /\ UNCHANGED <<reports, loc>>
       ELSE IF MkdirRefuses(reports, r)
       THEN /\ Finish(p, Raise("FileExistsError"))
            /\ UNCHANGED <<reports, loc>>
       ELSE /\ reports' = reports \cup {r}
            /\ loc' = Set(loc, p, [loc[p] EXCEPT !.now = _now_iso])
            /\ pc' = Set(pc, p, "create_write")
            /\ result' = result
    /\ UNCHANGED <<left, clock, root, dirs, meta, events, requests, timing, faults,
                   call, hist>>

\* create_run, lines 114-133.
create_run_write(p) ==
    /\ pc[p] = "create_write"
    /\ LET r == loc[p].run_id[1]
           m == InitialMeta(r, call[p].request, loc[p].now)
       IN
       IF r \notin dirs
       THEN /\ Finish(p, Raise("FileNotFoundError"))
            /\ UNCHANGED <<meta, faults, hist>>
       ELSE \E o \in WriteMetaOutcomes(r, m) :
              /\ meta' = Set(meta, r, o.file)
              /\ IF o.ok
                 THEN /\ Finish(p, Ok(CreateRunResponse(r, call[p].request, loc[p].now)))
                      /\ hist' = Set(hist, r, [hist[r] EXCEPT !.created = @ + 1,
                                                               !.deleted = FALSE])
                      /\ faults' = faults
                 ELSE /\ Finish(p, Raise("OSError"))
                      /\ hist' = hist
                      /\ faults' = faults + 1
    /\ UNCHANGED <<left, clock, root, dirs, reports, events, requests, timing, call, loc>>

UpdatedMeta_Fresh(m, status, now, message, summary) ==
    [m EXCEPT !.status = status,
              !.created = now,
              !.updated = now,
              !.status_message = message,
              !.summary = summary]

\* update_run, lines 142-147: the metadata as changed in memory.
UpdatedMeta(m, status, now, message, summary) ==
    [m EXCEPT !.status = status,
              !.updated = now,
              !.status_message = IF TruthyStr(message) THEN message ELSE @,
              !.summary = IF TruthyDict(summary) THEN summary ELSE @]

\* update_run, lines 138-147.
update_run_read(p) ==
    /\ Begin(p)
    /\ \E r \in OpRunIds, st \in Statuses, u \in UpdateInputs :
         LET m == _read_meta(r)
             msg == u.message
             sm == u.summary
         IN
         /\ call' = Set(call, p, [kind |-> "update_run", run_id |-> Some(r),
                                  status |-> st, message |-> msg, summary |-> sm])
         /\ IF ~m.ok
            THEN Finish(p, Raise(m.err)) /\ loc' = loc
            ELSE IF m.val = None
            THEN Finish(p, Raise("FileNotFoundError")) /\ loc' = loc
            ELSE /\ loc' = Set(loc, p,
                      [NoLoc EXCEPT !.run_id = Some(r),
                                    !.meta = UpdatedMeta(m.val[1], st, _now_iso, msg, sm)])
                 /\ pc' = Set(pc, p, "update_write")
                 /\ result' = result
    /\ UNCHANGED <<clock, fs, faults, hist>>

\* update_run, lines 149-150.
update_run_write(p) ==
    /\ pc[p] = "update_write"
    /\ LET r == loc[p].run_id[1] IN
       IF r \notin dirs
       THEN /\ Finish(p, Raise("FileNotFoundError"))
            /\ UNCHANGED <<meta, faults, hist>>
       ELSE \E o \in WriteMetaOutcomes(r, loc[p].meta) :
              /\ meta' = Set(meta, r, o.file)
              /\ IF o.ok
                 THEN /\ Finish(p, Ok(_to_detail(r, loc[p].meta)))
                      /\ faults' = faults
                      /\ hist' = Set(hist, r,
                           [hist[r] EXCEPT
                              !.msgs = IF TruthyStr(call[p].message)
                                       THEN @ \cup {call[p].message} ELSE @,
                              !.sums = IF TruthyDict(call[p].summary)
                                       THEN @ \cup {call[p].summary} ELSE @,
                              !.upd = Some([status |-> call[p].status,
                                            given |-> call[p].summary,
                                            returned |-> loc[p].meta.summary])])
                 ELSE /\ Finish(p, Raise("OSError"))
                      /\ faults' = faults + 1
                      /\ hist' = hist
    /\ UNCHANGED <<left, clock, root, dirs, reports, events, requests, timing, call, loc>>

RunDirPresent_Always(r) == TRUE

\* push_event, push_request, push_timing, lines 222, 245, 270:
\* run_dir.exists(); open() and write_text() fail likewise in a directory
\* that is not there.
RunDirPresent(r) == r \in dirs

\* push_event / push_request, lines 227-228 and 250-251: the timestamp of
\* the record to store.
Stamped_Always(data, now) == [data EXCEPT !.timestamp = Some(now)]

\* if not data.get("timestamp"): None and the empty string both count as no
\* timestamp.
Stamped(data, now) ==
    IF data.timestamp = None \/ data.timestamp = Some(EmptyText)
    THEN [data EXCEPT !.timestamp = Some(now)]
    ELSE data

\* push_event, lines 222-228, and _append_jsonl, lines 77-78.
PushEventTo(p, ids, inputs) ==
    /\ Begin(p)
    /\ \E r \in ids, ev \in inputs :
         /\ call' = Set(call, p, [kind |-> "push_event", run_id |-> Some(r),
                                  event |-> ev])
         /\ IF ~RunDirPresent(r)
            THEN Finish(p, Raise("FileNotFoundError")) /\ loc' = loc
            ELSE /\ loc' = Set(loc, p,
                      [NoLoc EXCEPT !.run_id = Some(r),
                                    !.data = Some(Stamped(ev, _now_iso)),
                                    !.sequence = NextSequence(_count_lines(events[r]))])
                 /\ pc' = Set(pc, p, "push_event_append")
                 /\ result' = result
    /\ UNCHANGED <<clock, fs, faults, hist>>

PushEvent(p, inputs) == PushEventTo(p, OpRunIds, inputs)

push_event_count(p) == PushEvent(p, EventInputs)

\* push_event called with the id of a run or with "..".
push_event_named(p) == PushEventTo(p, OpRunIds \cup {DataDir}, EventInputs)

\* push_event called with or without a timestamp of the caller's.
push_event_stamp(p) == PushEvent(p, StampEventInputs)

\* _append_jsonl, lines 79-81, for events.jsonl.
push_event_append(p) ==
    /\ pc[p] = "push_event_append"
    /\ LET r == loc[p].run_id[1] IN
       IF ~RunDirPresent(r)
       THEN /\ Finish(p, Raise("FileNotFoundError"))
            /\ UNCHANGED <<events, hist>>
       ELSE /\ events' = Set(events, r, AppendLine(events[r], loc[p].data[1]))
            /\ Finish(p, Ok(loc[p].sequence))
            /\ hist' = Set(hist, r, [hist[r] EXCEPT !.ev = Append(@, loc[p].sequence)])
    /\ UNCHANGED <<left, clock, root, dirs, reports, meta, requests, timing, faults, call,
                   loc>>

\* push_request, lines 245-251, and _append_jsonl, lines 77-78.
PushRequest(p, inputs) ==
    /\ Begin(p)
    /\ \E r \in OpRunIds, rq \in inputs :
         /\ call' = Set(call, p, [kind |-> "push_request", run_id |-> Some(r),
                                  request_log |-> rq])
         /\ IF ~RunDirPresent(r)
            THEN Finish(p, Raise("FileNotFoundError")) /\ loc' = loc
            ELSE /\ loc' = Set(loc, p,
                      [NoLoc EXCEPT !.run_id = Some(r),
                                    !.data = Some(Stamped(rq, _now_iso)),
                                    !.sequence = NextSequence(_count_lines(requests[r]))])
                 /\ pc' = Set(pc, p, "push_request_append")
                 /\ result' = result
    /\ UNCHANGED <<clock, fs, faults, hist>>

push_request_count(p) == PushRequest(p, RequestInputs)

\* push_request called with or without a timestamp of the caller's.
push_request_stamp(p) == PushRequest(p, StampRequestInputs)

\* _append_jsonl, lines 79-81, for requests.jsonl, and push_request, line 255.
push_request_append(p) ==
    /\ pc[p] = "push_request_append"
    /\ LET r == loc[p].run_id[1] IN
       IF ~RunDirPresent(r)
       THEN /\ Finish(p, Raise("FileNotFoundError"))
            /\ UNCHANGED <<requests, hist>>
       ELSE /\ requests' = Set(requests, r, AppendLine(requests[r], loc[p].data[1]))
            /\ Finish(p, Ok(loc[p].sequence))
            /\ hist' = Set(hist, r, [hist[r] EXCEPT !.rq = Append(@, loc[p].sequence)])
    /\ UNCHANGED <<left, clock, root, dirs, reports, meta, events, timing, faults, call,
                   loc>>

ExistingTiming_Empty(r) == <<>>

\* push_timing, lines 275-280: the array to extend; unreadable content
\* counts as empty.
ExistingTiming(r) == IF timing[r].st = "ok" THEN timing[r].data ELSE <<>>

\* push_timing, lines 282-283: existing.append(...) for the first entry of
\* the batch (every batch pushed has one) raises AttributeError when
\* json.loads returned a value that is no list.
LoadTiming(r) ==
    IF timing[r].st = "object" THEN Raise("AttributeError")
    ELSE Ok(ExistingTiming(r))

\* push_timing, lines 270-280.
push_timing_read(p) ==
    /\ Begin(p)
    /\ \E r \in OpRunIds, es \in TimingBatches :
         /\ call' = Set(call, p, [kind |-> "push_timing", run_id |-> Some(r),
                                  entries |-> es])
         /\ IF ~RunDirPresent(r)
            THEN Finish(p, Raise("FileNotFoundError")) /\ loc' = loc
            ELSE IF ~LoadTiming(r).ok
            THEN Finish(p, Raise(LoadTiming(r).err)) /\ loc' = loc
            ELSE /\ loc' = Set(loc, p,
                      [NoLoc EXCEPT !.run_id = Some(r),
                                    !.existing = LoadTiming(r).val \o es])
                 /\ pc' = Set(pc, p, "push_timing_write")
                 /\ result' = result
    /\ UNCHANGED <<clock, fs, faults, hist>>

\* push_timing, lines 285-286.
push_timing_write(p) ==
    /\ pc[p] = "push_timing_write"
    /\ LET r == loc[p].run_id[1] IN
       IF ~RunDirPresent(r)
       THEN /\ Finish(p, Raise("FileNotFoundError"))
            /\ UNCHANGED <<timing, hist>>
       ELSE /\ timing' = Set(timing, r, TimingFile(loc[p].existing))
            /\ Finish(p, Ok(Len(loc[p].existing)))
            /\ hist' = Set(hist, r, [hist[r] EXCEPT !.tm = @ \o call[p].entries])
    /\ UNCHANGED <<left, clock, root, dirs, reports, meta, events, requests, faults, call,
                   loc>>

RemovedJsonl_Kept(f) == f

\* shutil.rmtree(run_dir): what is left of a stream of the deleted run.
RemovedJsonl(f) == NoJsonl

\* The names that callers pass to delete_run as run_id: ids of runs.
DeleteNames == {[name |-> "run", id |-> Some(r)] : r \in DeleteRunIds}

\* The same with the names "." and "..", which are no run ids.
PathNames == DeleteNames \cup {[name |-> ".", id |-> None],
                               [name |-> "..", id |-> None]}

\* delete_run, lines 309-310: run_dir.exists() for runs/{name}; pathlib
\* drops a "." segment, and ".." is found through runs/.
RunDirExists(n) == IF n.name = "run" THEN n.id[1] \in dirs ELSE root

\* delete_run, lines 314-317: resolve().relative_to(runs_path.resolve())
\* raises ValueError only for a path outside runs/; runs/ itself passes.
ResolvesUnderRuns(n) == n.name # ".."

\* delete_run, line 319: the run directories that rmtree(run_dir) removes.
Removed(n) == IF n.name = "run" THEN {n.id[1]} ELSE dirs

\* delete_run, lines 309-320, called with one of the given names.
DeleteRun(p, names) ==
    /\ Begin(p)
    /\ \E n \in names :
         /\ call' = Set(call, p, [kind |-> "delete_run", run_id |-> n.id,
                                  name |-> n.name])
         /\ IF ~RunDirExists(n)
            THEN /\ Finish(p, Raise("FileNotFoundError"))
                 /\ UNCHANGED <<fs, hist>>
            ELSE IF ~ResolvesUnderRuns(n)
            THEN /\ Finish(p, Raise("ValueError"))
                 /\ UNCHANGED <<fs, hist>>
            ELSE LET gone == Removed(n) IN
                 /\ root' = IF n.name = "run" THEN root ELSE FALSE
                 /\ dirs' = dirs \ gone
                 /\ hist' = [r \in KnownRunIds |->
                               IF r \in gone
                               THEN [NoHist EXCEPT !.deleted = (n.id = Some(r))]
                               ELSE hist[r]]
                 /\ reports' = reports \ gone
                 /\ meta' = [r \in KnownRunIds |->
                               IF r \in gone THEN MetaAbsent ELSE meta[r]]
                 /\ events' = [r \in KnownRunIds |->
                                 IF r \in gone THEN RemovedJsonl(events[r])
                                 ELSE events[r]]
                 /\ requests' = [r \in KnownRunIds |->
                                   IF r \in gone THEN RemovedJsonl(requests[r])
                                   ELSE requests[r]]
                 /\ timing' = [r \in KnownRunIds |->
                                 IF r \in gone THEN NoTiming ELSE timing[r]]
                 /\ Finish(p, Ok(None))
    /\ UNCHANGED <<clock, faults, loc>>

\* delete_run called with the id of a run.
delete_run(p) == DeleteRun(p, DeleteNames)

\* delete_run called with the id of a run, "." or "..".
delete_path(p) == DeleteRun(p, PathNames)

\* ------------------------------------------------------------- HTTP layer
\* The run-scoped endpoints of app.py by the storage method they call.
Endpoints == {"get_run", "update_run", "push_event", "get_events",
              "push_request", "get_requests", "push_timing", "get_timing"}

\* The endpoints whose handler has an `except Exception` clause beside
\* `except FileNotFoundError`.
CatchesException(endpoint) == endpoint = "update_run"

\* status_code of the route: 201 for the POST routes, else 200.
SuccessStatus(endpoint) ==
    IF endpoint \in {"push_event", "push_request", "push_timing"} THEN 201 ELSE 200

\* The answer of a handler to what the storage call returned or raised:
\* HTTPException(404) for FileNotFoundError; _error_response(500, ...) where
\* the handler catches Exception; else the exception leaves the handler and
\* the server answers 500 with a plain text body.
HttpResponse(endpoint, res) ==
    IF res.ok THEN [status |-> SuccessStatus(endpoint), fields |-> {"result"}]
    ELSE IF res.err = "FileNotFoundError"
    THEN [status |-> 404, fields |-> {"detail"}]
    ELSE IF CatchesException(endpoint)
    THEN [status |-> 500, fields |-> {"error", "detail"}]
    ELSE [status |-> 500, fields |-> {}]

\* The routes below /api/runs/{run_id}: the method and the rest of the path.
RunRoutes == {<<"GET", <<>>>>, <<"PATCH", <<>>>>,
              <<"POST", <<"events">>>>, <<"GET", <<"events">>>>,
              <<"POST", <<"requests">>>>, <<"GET", <<"requests">>>>,
              <<"POST", <<"timing">>>>, <<"GET", <<"timing">>>>,
              <<"POST", <<"generate-reports">>>>}
HttpMethods == {"GET", "POST", "PATCH"}

\* The router: 404 for a path that no route has ({run_id} takes one
\* segment), 405 for a path that has routes of other methods only.
Dispatch(method, rest) ==
    IF <<method, rest>> \in RunRoutes THEN 200
    ELSE IF \E m \in HttpMethods : <<m, rest>> \in RunRoutes THEN 405
    ELSE 404

\* POST /api/runs/{run_id}/requests/query with no filter: app.py has no
\* handler to run for it.
QueryRequests(r) ==
    LET routed == Dispatch("POST", <<"requests", "query">>) IN
    IF routed # 200 THEN [status |-> routed, fields |-> {"detail"}]
    ELSE [status |-> 200, fields |-> {"total", "matched"},
          total |-> Len(get_requests(r).val), matched |-> Len(get_requests(r).val)]

\* ------------------------------------------------------------- files API
\* A path is the sequence of its segments, the text between the "/"; a
\* first segment "" is a leading "/". A location is the sequence of names
\* from the filesystem's root down.
SegmentNames == {"", "..", "a..b", "runs", "f", "b", "out", "in", "etc", "passwd"}
Paths == UNION {[1..n -> SegmentNames] : n \in 0..MaxPathLen}

\* DATA_PATH, and what the volume and its surroundings hold: directories,
\* text files, a file that is no UTF-8, a link out of the volume and a link
\* within it.
DATA_PATH == <<"data">>
Directories == {<<>>, <<"data">>, <<"data", "runs">>, <<"etc">>}
TextFiles == {<<"data", "f">>, <<"data", "a..b">>, <<"etc", "passwd">>}
BinaryFiles == {<<"data", "runs", "b">>}
Symlinks == {<<"data", "out">>, <<"data", "in">>}
SymlinkTarget(l) == IF l = <<"data", "out">> THEN <<"etc">> ELSE <<"data", "runs">>

\* ".." in path: the text holds two dots in a row, which lie within one
\* segment since "/" separates the segments.
HasDotDot(seg) == seg \in {"..", "a..b"}
ContainsDotDot(path) == \E i \in 1..Len(path) : HasDotDot(path[i])

\* DATA_PATH / path: a path with a leading "/" replaces DATA_PATH.
JoinStart(path) == IF path # <<>> /\ path[1] = "" THEN <<>> ELSE DATA_PATH

\* Path.resolve(): empty segments drop out, ".." goes to the parent of the
\* location reached, a link is followed, and what does not exist is kept
\* as named.
RECURSIVE Resolve(_, _)
Resolve(at, path) ==
    IF path = <<>> THEN at
    ELSE LET seg == Head(path)
             down == Append(at, seg)
             to == IF seg = "" THEN at
                   ELSE IF seg = ".."
                   THEN (IF at = <<>> THEN at ELSE SubSeq(at, 1, Len(at) - 1))
                   ELSE IF down \in Symlinks THEN SymlinkTarget(down)
                   ELSE down
         IN Resolve(to, Tail(path))

RelativeTo_Any(target, base) == TRUE

\* target.relative_to(base) does not raise: base is target or above it.
RelativeTo(target, base) ==
    /\ Len(base) <= Len(target)
    /\ SubSeq(target, 1, Len(base)) = base

\* _error_response, and the two answers of success.
_error_response(status, error) ==
    [status |-> status, body |-> "error", error |-> error, target |-> None]
Listing(target) ==
    [status |-> 200, body |-> "listing", error |-> "", target |-> Some(target)]
Content(target) ==
    [status |-> 200, body |-> "content", error |-> "", target |-> Some(target)]

\* get_data_file, lines 366-387, as a function of the path.
FileResponse(path) ==
    LET target == Resolve(JoinStart(path), path) IN
    IF ContainsDotDot(path) THEN _error_response(403, "forbidden")
    ELSE IF ~RelativeTo(target, DATA_PATH) THEN _error_response(403, "forbidden")
    ELSE IF target \notin Directories \cup TextFiles \cup BinaryFiles
    THEN _error_response(404, "not_found")
    ELSE IF target \in Directories THEN Listing(target)
    ELSE IF target \in BinaryFiles THEN _error_response(400, "binary_file")
    ELSE Content(target)

\* GET /api/files/{path:path}
get_data_file(p) ==
    /\ Begin(p)
    /\ \E path \in Paths :
         /\ call' = Set(call, p, [kind |-> "get_data_file", run_id |-> None,
                                  path |-> path])
         /\ Finish(p, FileResponse(path))
    /\ UNCHANGED <<clock, fs, faults, loc, hist>>

\* ------------------------------------------------------------- read calls
\* The methods that only read, and what each returns or raises.
ReadKinds == {"get_run", "list_runs", "get_events", "get_requests",
              "get_timing", "get_stats"}
ReadResult(kind, r) ==
    CASE kind = "get_run" -> get_run(r)
      [] kind = "list_runs" -> list_runs
      [] kind = "get_events" -> get_events(r)
      [] kind = "get_requests" -> get_requests(r)
      [] kind = "get_timing" -> get_timing(r)
      [] kind = "get_stats" -> get_stats

read_call_Touching(p) ==
    /\ Begin(p)
    /\ \E kind \in ReadKinds, r \in OpRunIds :
         /\ call' = Set(call, p, [kind |-> kind, run_id |-> Some(r)])
         /\ Finish(p, ReadResult(kind, r))
         /\ events' = IF r \in dirs
                      THEN Set(events, r, [events[r] EXCEPT !.exists = TRUE])
                      ELSE events
    /\ UNCHANGED <<clock, root, dirs, reports, meta, requests, timing, faults, loc,
                   hist>>

\* get_run, list_runs, get_events, get_requests, get_timing, get_stats: none
\* of them writes, makes or removes a file.
read_call(p) ==
    /\ Begin(p)
    /\ \E kind \in ReadKinds, r \in OpRunIds :
         /\ call' = Set(call, p, [kind |-> kind, run_id |-> Some(r)])
         /\ Finish(p, ReadResult(kind, r))
    /\ UNCHANGED <<clock, fs, faults, loc, hist>>

\* The caller takes the answer and is free for its next call.
Return(p) ==
    /\ pc[p] = "ret"
    /\ pc' = Set(pc, p, "idle")
    /\ call' = Set(call, p, NoCall)
    /\ loc' = Set(loc, p, NoLoc)
    /\ result' = Set(result, p, NoResult)
    /\ UNCHANGED <<left, clock, fs, faults, hist>>

\* The clock moves to the next second.
Tick ==
    /\ clock < MaxClock
    /\ clock' = clock + 1
    /\ UNCHANGED <<left, fs, faults, pc, call, loc, result, hist>>

\* Every step but those of delete_run.
StepKeep(p) ==
    \/ create_run_begin(p)
    \/ create_run_exists(p)
    \/ create_run_mkdir(p)
    \/ create_run_reports(p)
    \/ create_run_write(p)
    \/ update_run_read(p)
    \/ update_run_write(p)
    \/ push_event_count(p)
    \/ push_event_append(p)
    \/ push_request_count(p)
    \/ push_request_append(p)
    \/ push_timing_read(p)
    \/ push_timing_write(p)
    \/ Return(p)

Step(p) == StepKeep(p) \/ delete_run(p)

\* Two callers whose steps interleave freely: RunStorage takes no lock.
Init == InitWith(Callers, MaxRaceCalls)
Next == Tick \/ \E p \in Callers : Step(p)
Spec == Init /\ [][Next]_vars

\* A single caller (a single writer), one call after the other.
InitSerial == InitWith({"w1"}, MaxSerialCalls)
SpecSerial == InitSerial /\ [][Next]_vars

\* A single caller with calls enough for create, three appends and an update.
InitScenario == InitWith({"w1"}, MaxCalls)
SpecScenario == InitScenario /\ [][Next]_vars

\* Two interleaved callers, none of which deletes a run.
InitPair == InitWith(Callers, MaxPairCalls)
NextNoDelete == Tick \/ \E p \in Callers : StepKeep(p)
SpecNoDelete == InitPair /\ [][NextNoDelete]_vars

\* A single caller that only creates runs.
StepCreate(p) ==
    \/ create_run_begin(p)
    \/ create_run_exists(p)
    \/ create_run_mkdir(p)
    \/ create_run_reports(p)
    \/ create_run_write(p)
    \/ Return(p)

InitCreates == InitWith({"w1"}, MaxCreates)
NextCreates == Tick \/ \E p \in Callers : StepCreate(p)
SpecCreates == InitCreates /\ [][NextCreates]_vars

\* The same caller, whose thread keeps running: a call under way takes its
\* next step.
SpecCreatesFair == SpecCreates /\ WF_vars(\E p \in Callers : StepCreate(p))

\* A single caller that creates runs and deletes by any name.
InitDelete == InitWith({"w1"}, MaxRaceCalls)
NextDelete == Tick \/ \E p \in Callers : StepCreate(p) \/ delete_path(p)
SpecDelete == InitDelete /\ [][NextDelete]_vars

\* A single caller that creates runs and appends records with and without
\* timestamps of its own.
StepStamp(p) ==
    \/ StepCreate(p)
    \/ push_event_stamp(p)
    \/ push_event_append(p)
    \/ push_request_stamp(p)
    \/ push_request_append(p)

InitStamp == InitWith({"w1"}, MaxSerialCalls)
NextStamp == Tick \/ \E p \in Callers : StepStamp(p)
SpecStamp == InitStamp /\ [][NextStamp]_vars

\* A single caller that creates, updates and deletes runs.
StepStats(p) ==
    \/ StepCreate(p)
    \/ update_run_read(p)
    \/ update_run_write(p)
    \/ delete_run(p)

InitStats == InitWith({"w1"}, MaxSerialCalls)
NextStats == Tick \/ \E p \in Callers : StepStats(p)
SpecStats == InitStats /\ [][NextStats]_vars

\* A single caller that creates runs and pushes events to a run or to "..":
\* the directories that _run_dir can name include the data path.
InitEscape ==
    /\ clock = 1
    /\ root = TRUE
    /\ dirs = {DataDir}
    /\ reports = {}
    /\ meta = [r \in RunIdsWithin(MaxRaceCalls) \cup {DataDir} |-> MetaAbsent]
    /\ events = [r \in RunIdsWithin(MaxRaceCalls) \cup {DataDir} |-> NoJsonl]
    /\ requests = [r \in RunIdsWithin(MaxRaceCalls) \cup {DataDir} |-> NoJsonl]
    /\ timing = [r \in RunIdsWithin(MaxRaceCalls) \cup {DataDir} |-> NoTiming]
    /\ faults = 0
    /\ left = MaxRaceCalls
    /\ pc = [p \in Callers |-> IF p = "w1" THEN "idle" ELSE "off"]
    /\ call = [p \in Callers |-> NoCall]
    /\ loc = [p \in Callers |-> NoLoc]
    /\ result = [p \in Callers |-> NoResult]
    /\ hist = [r \in RunIdsWithin(MaxRaceCalls) \cup {DataDir} |-> NoHist]

NextEscape ==
    Tick \/ \E p \in Callers :
               StepCreate(p) \/ push_event_named(p) \/ push_event_append(p)
SpecEscape == InitEscape /\ [][NextEscape]_vars

\* A single caller whose calls include the reading methods.
InitReads == InitWith({"w1"}, MaxRaceCalls)
NextReads == Tick \/ \E p \in Callers : Step(p) \/ read_call(p)
SpecReads == InitReads /\ [][NextReads]_vars

\* A single caller that browses the data volume.
InitFiles == InitWith({"w1"}, MaxPairCalls)
NextFiles == \E p \in Callers : get_data_file(p) \/ Return(p)
SpecFiles == InitFiles /\ [][NextFiles]_vars

\* A single caller that pushes timing batches to a run whose timing.json
\* holds any content when the first push is made.
StoredTiming == {NoTiming, CorruptTiming, ObjectTiming, TimingFile(<<>>),
                 TimingFile(<<"A">>)}
TimingRun == _generate_run_id(1)
TimingRequest == [target |-> "docs/x", mode |-> "analyse", description |-> None]

InitTiming ==
    /\ clock = 1
    /\ root = TRUE
    /\ dirs = {TimingRun}
    /\ reports = {TimingRun}
    /\ meta = [r \in RunIdsWithin(0) |->
                 IF r = TimingRun
                 THEN MetaFile(InitialMeta(TimingRun, TimingRequest, 1))
                 ELSE MetaAbsent]
    /\ events = [r \in RunIdsWithin(0) |-> NoJsonl]
    /\ requests = [r \in RunIdsWithin(0) |-> NoJsonl]
    /\ timing \in [RunIdsWithin(0) -> StoredTiming]
    /\ \A r \in RunIdsWithin(0) \ {TimingRun} : timing[r] = NoTiming
    /\ faults = 0
    /\ left = MaxSerialCalls
    /\ pc = [p \in Callers |-> IF p = "w1" THEN "idle" ELSE "off"]
    /\ call = [p \in Callers |-> NoCall]
    /\ loc = [p \in Callers |-> NoLoc]
    /\ result = [p \in Callers |-> NoResult]
    /\ hist = [r \in RunIdsWithin(0) |->
                 IF r = TimingRun THEN [NoHist EXCEPT !.created = 1] ELSE NoHist]

StepTiming(p) ==
    \/ push_timing_read(p)
    \/ push_timing_write(p)
    \/ Return(p)

NextTiming == \E p \in Callers : StepTiming(p)
SpecTiming == InitTiming /\ [][NextTiming]_vars

\* ------------------------------------------------------------- claims
\* A caller is inside the named method on run r.
InFlight(kind, r) ==
    \E p \in Callers : /\ pc[p] \notin {"idle", "ret"}
                       /\ call[p].kind = kind
                       /\ call[p].run_id = Some(r)

\* A caller holds the answer of a successful call of the named method.
Returned(p, kind) == pc[p] = "ret" /\ call[p].kind = kind /\ result[p].ok

Range(s) == {s[i] : i \in 1..Len(s)}
NoDuplicates(s) == Cardinality(Range(s)) = Len(s)
Occurrences(s, e) == Cardinality({i \in 1..Len(s) : s[i] = e})

\* C1: with a single writer, the k-th successful push_event since the run
\* was created returned k and the k-th successful push_request returned k;
\* each stream is numbered on its own, whatever was pushed to the other.
C1_SequencePerStream ==
    \A r \in KnownRunIds :
        /\ \A k \in 1..Len(hist[r].ev) : hist[r].ev[k] = k
        /\ \A k \in 1..Len(hist[r].rq) : hist[r].rq[k] = k

\* A first push_request returns 1 on a run whose two events got 1 and 2.
C1_Witness ==
    \E p \in Callers :
        /\ Returned(p, "push_request")
        /\ result[p].val = 1
        /\ hist[call[p].run_id[1]].ev = <<1, 2>>

\* C2: concurrent appends to one stream of one run never return the same
\* sequence number, and once none is in flight the numbers returned are
\* exactly 1..n for the n records of the stream.
C2_AppendsSerialized ==
    \A r \in dirs :
        /\ NoDuplicates(hist[r].ev)
        /\ NoDuplicates(hist[r].rq)
        /\ ~InFlight("push_event", r)
             => Range(hist[r].ev) = 1..Len(_read_jsonl(events[r]))
        /\ ~InFlight("push_request", r)
             => Range(hist[r].rq) = 1..Len(_read_jsonl(requests[r]))

\* C3: once no push_timing is in flight on a run, get_timing holds every
\* entry of every batch that was pushed, as often as it was pushed.
C3_TimingPushesKept ==
    \A r \in dirs :
        (~InFlight("push_timing", r) /\ get_timing(r).ok)
            => \A e \in Range(hist[r].tm) :
                   Occurrences(get_timing(r).val, e) = Occurrences(hist[r].tm, e)

\* C4: once no update is in flight on a run, a status_message and a
\* summary that an update wrote are still there: the metadata holds one of
\* the messages written and one of the summaries written.
C4_UpdatesSerialized ==
    \A r \in dirs :
        (~InFlight("update_run", r) /\ meta[r].st = "ok")
            => /\ hist[r].msgs # {} => meta[r].data.status_message \in hist[r].msgs
               /\ hist[r].sums # {} => meta[r].data.summary \in hist[r].sums

\* C5: over every interleaving of calls none of which deletes a run, the
\* create_run that writes the metadata of a run finds none there, and no
\* run_id is returned by two successful create_run calls.
C5_RunIdUnique ==
    [][\A p \in Callers :
          (pc[p] = "create_write" /\ pc'[p] = "ret")
              => /\ meta[loc[p].run_id[1]].st = "absent"
                 /\ result'[p].ok => hist[loc[p].run_id[1]].created = 0]_vars

\* Two creators in the same second both succeeded, with different ids.
C5_Witness ==
    /\ \A p \in Callers : Returned(p, "create_run")
    /\ \E p, q \in Callers : result[p].val.run_id # result[q].val.run_id
    /\ clock = 1

\* C6: in every state a run directory exists exactly when its metadata does.
C6_NeverPartial ==
    \A r \in KnownRunIds : (r \in dirs) <=> (meta[r].st # "absent")

\* C7: a successful create_run returns an id made of the timestamp alone or
\* of the timestamp and a collision counter n >= 1, and the run directory
\* and its reports/ subdirectory exist.
RunIdWellFormed(id) ==
    /\ Len(id) \in {1, 2}
    /\ id[1] \in Times
    /\ Len(id) = 2 => id[2] >= 1

C7_CreateResult ==
    \A p \in Callers :
        Returned(p, "create_run")
            => /\ RunIdWellFormed(result[p].val.run_id)
               /\ result[p].val.run_id \in dirs
               /\ result[p].val.run_id \in reports

\* A create_run returned an id with a collision counter.
C7_Witness ==
    \E p \in Callers :
        /\ Returned(p, "create_run")
        /\ Len(result[p].val.run_id) = 2

\* C8: right after a successful create_run, get_run gives status "created",
\* the target, mode and description asked for, created = updated and no
\* summary.
C8_CreatedMetadata ==
    \A p \in Callers :
        Returned(p, "create_run")
            => LET g == get_run(result[p].val.run_id) IN
               /\ g.ok
               /\ g.val.status = "created"
               /\ g.val.target = call[p].request.target
               /\ g.val.mode = call[p].request.mode
               /\ g.val.description = call[p].request.description
               /\ g.val.created = g.val.updated
               /\ g.val.summary = None

\* A create_run made in the second second returned.
C8_Witness ==
    \E p \in Callers :
        /\ Returned(p, "create_run")
        /\ get_run(result[p].val.run_id).ok
        /\ get_run(result[p].val.run_id).val.created = 2

\* A run that create_run returned and that nothing was appended to since
\* its directory was made.
Fresh(r) ==
    /\ hist[r].created > 0
    /\ hist[r].ev = <<>> /\ hist[r].rq = <<>> /\ hist[r].tm = <<>>
    /\ \A p \in Callers :
         (pc[p] \in {"push_event_append", "push_request_append", "push_timing_write"})
             => call[p].run_id # Some(r)

\* C9: a freshly created run has the three counts 0, and get_events,
\* get_requests and get_timing return the empty list.
C9_FreshRunEmpty ==
    \A r \in KnownRunIds :
        (Fresh(r) /\ get_run(r).ok)
            => /\ get_run(r).val.event_count = 0
               /\ get_run(r).val.request_count = 0
               /\ get_run(r).val.timing_count = 0
               /\ get_events(r) = Ok(<<>>)
               /\ get_requests(r) = Ok(<<>>)
               /\ get_timing(r) = Ok(<<>>)

\* A fresh run made by the fourth call or a later one (so that a run of the
\* same id may have been filled and deleted before).
C9_Witness ==
    \E r \in OpRunIds : Fresh(r) /\ get_run(r).ok /\ left <= MaxSerialCalls - 4 /\ clock = 1

\* C10: get_run reports as counts the lengths of get_events, get_requests
\* and get_timing, with the status of the last update and the summary that
\* update reported; a non-empty summary given to it is that summary.
C10_DetailCounts ==
    \A r \in KnownRunIds :
        get_run(r).ok
            => /\ get_events(r).ok /\ get_requests(r).ok /\ get_timing(r).ok
               /\ get_run(r).val.event_count = Len(get_events(r).val)
               /\ get_run(r).val.request_count = Len(get_requests(r).val)
               /\ get_run(r).val.timing_count = Len(get_timing(r).val)
               /\ hist[r].upd # None
                    => /\ get_run(r).val.status = hist[r].upd[1].status
                       /\ get_run(r).val.summary = hist[r].upd[1].returned
                       /\ TruthyDict(hist[r].upd[1].given)
                            => get_run(r).val.summary = hist[r].upd[1].given

\* Two events, one request, then update(completed, {ok: true}).
C10_Witness ==
    \E r \in KnownRunIds :
        /\ get_run(r).ok
        /\ get_run(r).val.event_count = 2
        /\ get_run(r).val.request_count = 1
        /\ get_run(r).val.status = "completed"
        /\ get_run(r).val.summary = Some(SummaryOk)

\* C11: once an update that was given a summary S (the empty object too)
\* has returned, get_run returns summary = S, whatever the run held before.
C11_SummaryReplaced ==
    \A r \in dirs :
        (/\ get_run(r).ok
         /\ ~InFlight("update_run", r)
         /\ hist[r].upd # None
         /\ hist[r].upd[1].given # None)
            => get_run(r).val.summary = hist[r].upd[1].given

\* C12: get_run on a run whose metadata is absent fails with
\* FileNotFoundError, and so does update_run, in one step that leaves every
\* directory and file as it was.
GetAbsentNotFound ==
    \A r \in KnownRunIds :
        meta[r].st = "absent" => get_run(r) = Raise("FileNotFoundError")

UpdateAbsentNotFound ==
    \A p \in Callers :
        (/\ pc[p] = "idle"
         /\ call'[p].kind = "update_run"
         /\ meta[call'[p].run_id[1]].st = "absent")
            => /\ pc'[p] = "ret"
               /\ result'[p] = Raise("FileNotFoundError")
               /\ fs' = fs

C12_AbsentNotFound == []GetAbsentNotFound /\ [][UpdateAbsentNotFound]_vars

\* An update failed on a run whose directory is there without metadata.
C12_Witness ==
    \E p \in Callers :
        /\ pc[p] = "ret"
        /\ call[p].kind = "update_run"
        /\ result[p] = Raise("FileNotFoundError")
        /\ call[p].run_id[1] \in dirs
        /\ meta[call[p].run_id[1]].st = "absent"

\* The run ids of the runs that list_runs returns, in its order.
ListedIds == [i \in 1..Len(list_runs.val) |-> list_runs.val[i].run_id]

\* C13: list_runs does not raise, leaves out the run directories whose
\* metadata is missing or unparsable and returns every run whose metadata is
\* valid.
C13_ListSkipsBadRuns ==
    /\ list_runs.ok
    /\ Range(ListedIds) = {r \in dirs : meta[r].st = "ok"}

\* C14: list_runs is in reverse order of creation: the run that a single
\* caller's create_run has just returned is listed first, and no run is
\* listed before one with a later creation time.
C14_NewestListedFirst ==
    list_runs.ok =>
        /\ \A p \in Callers :
             Returned(p, "create_run")
                 => ListedIds[1] = result[p].val.run_id
        /\ \A i, j \in 1..Len(ListedIds) :
             i < j => list_runs.val[i].created >= list_runs.val[j].created

\* A create_run is at work on run id r.
CreateInFlight(r) ==
    \E p \in Callers :
        /\ pc[p] \in {"create_exists", "create_mkdir", "create_reports", "create_write"}
        /\ loc[p].run_id = Some(r)

\* C15: from a successful delete_run of an id until a create_run returns
\* that id again, the run directory does not exist and get_run, get_events,
\* get_requests and get_timing on the id fail with FileNotFoundError (as
\* update_run, the push methods and delete_run then do).
C15_DeletedStaysGone ==
    \A r \in KnownRunIds :
        (hist[r].deleted /\ ~CreateInFlight(r))
            => /\ r \notin dirs
               /\ get_run(r) = Raise("FileNotFoundError")
               /\ get_events(r) = Raise("FileNotFoundError")
               /\ get_requests(r) = Raise("FileNotFoundError")
               /\ get_timing(r) = Raise("FileNotFoundError")

\* C16: delete_run with a name whose directory exists and whose canonical
\* path is not below runs/ (".." is its parent, "." is runs/ itself) is
\* rejected with ValueError, which is not FileNotFoundError, and removes
\* nothing.
C16_DeleteOutsideRejected ==
    [][\A p \in Callers :
          (/\ pc[p] = "idle"
           /\ call'[p].kind = "delete_run"
           /\ call'[p].name # "run"
           /\ root)
              => /\ result'[p] = Raise("ValueError")
                 /\ fs' = fs]_vars

IsPrefix(a, b) == Len(a) <= Len(b) /\ \A i \in 1..Len(a) : a[i] = b[i]

\* C17: no step that leaves a run in place changes or removes a stored
\* record: what get_events (get_requests) returned before the step is a
\* prefix of what it returns after it.
C17_AppendOnly ==
    [][\A r \in KnownRunIds :
          (r \in dirs /\ r \in dirs')
              => /\ IsPrefix(_read_jsonl(events[r]), _read_jsonl(events'[r]))
                 /\ IsPrefix(_read_jsonl(requests[r]), _read_jsonl(requests'[r]))]_vars

\* A run holds two events stored in different seconds, and a request.
C17_Witness ==
    \E r \in dirs :
        /\ Len(get_events(r).val) = 2
        /\ get_events(r).val[1] # get_events(r).val[2]
        /\ Len(get_requests(r).val) = 1

\* C18: with a single writer, the number n that push_event (push_request)
\* has just returned is a position of the stream, and the n-th element of
\* get_events (get_requests) is the record just written.
C18_SequenceIsPosition ==
    \A p \in Callers :
        /\ Returned(p, "push_event")
             => LET l == get_events(call[p].run_id[1]).val IN
                /\ result[p].val \in 1..Len(l)
                /\ l[result[p].val] = loc[p].data[1]
        /\ Returned(p, "push_request")
             => LET l == get_requests(call[p].run_id[1]).val IN
                /\ result[p].val \in 1..Len(l)
                /\ l[result[p].val] = loc[p].data[1]

\* A second event, stamped in a later second than the first, got number 2.
C18_Witness ==
    \E p \in Callers :
        /\ Returned(p, "push_event")
        /\ result[p].val = 2
        /\ get_events(call[p].run_id[1]).val[1].timestamp = Some(1)
        /\ get_events(call[p].run_id[1]).val[2].timestamp = Some(2)

\* C19: the k-th record that get_events returns and the k-th that
\* get_requests returns carry a sequence field, and its value is k.
HasSequence(rec, k) == "sequence" \in DOMAIN rec /\ rec.sequence = Some(k)

C19_RecordsCarrySequence ==
    \A r \in dirs :
        /\ \A k \in 1..Len(get_events(r).val) : HasSequence(get_events(r).val[k], k)
        /\ \A k \in 1..Len(get_requests(r).val) : HasSequence(get_requests(r).val[k], k)

\* No push of the named method on run r has returned or is in flight.
NothingPushed(kind, r) ==
    /\ ~InFlight(kind, r)
    /\ kind = "push_event" => hist[r].ev = <<>>
    /\ kind = "push_request" => hist[r].rq = <<>>
    /\ kind = "push_timing" => hist[r].tm = <<>>

\* C20: on a run id without directory get_events, get_requests and
\* get_timing fail with FileNotFoundError; on one whose directory exists and
\* to which nothing was pushed they return the empty list.
C20_MissingVsEmpty ==
    \A r \in KnownRunIds :
        IF r \notin dirs
        THEN /\ get_events(r) = Raise("FileNotFoundError")
             /\ get_requests(r) = Raise("FileNotFoundError")
             /\ get_timing(r) = Raise("FileNotFoundError")
        ELSE /\ NothingPushed("push_event", r) => get_events(r) = Ok(<<>>)
             /\ NothingPushed("push_request", r) => get_requests(r) = Ok(<<>>)
             /\ NothingPushed("push_timing", r) => get_timing(r) = Ok(<<>>)

\* A run that exists with nothing pushed beside a run id that was deleted.
C20_Witness ==
    /\ \E r \in dirs : /\ NothingPushed("push_event", r)
                       /\ NothingPushed("push_request", r)
                       /\ NothingPushed("push_timing", r)
    /\ \E r \in KnownRunIds \ dirs : hist[r].deleted

\* C21: push_event, push_request and push_timing called with the id of a
\* run whose directory does not exist raise FileNotFoundError at once and
\* leave the storage as it was: no directory and no log file is made.
PushKinds == {"push_event", "push_request", "push_timing"}
C21_PushAbsentNotFound ==
    [][\A p \in Callers :
         (/\ pc[p] = "idle"
          /\ pc'[p] # "idle"
          /\ call'[p].kind \in PushKinds
          /\ call'[p].run_id[1] \notin dirs)
         => /\ pc'[p] = "ret"
            /\ result'[p] = Raise("FileNotFoundError")
            /\ fs' = fs]_vars
C21_Witness ==
    \E p \in Callers :
      /\ pc[p] = "ret"
      /\ call[p].kind = "push_timing"
      /\ result[p] = Raise("FileNotFoundError")
      /\ call[p].run_id[1] \notin dirs
      /\ hist[call[p].run_id[1]].deleted
      /\ timing[call[p].run_id[1]] = NoTiming

\* The timestamp that a push_event or push_request call was given, and the
\* last record of a stream.
GivenTimestamp(c) ==
    IF c.kind = "push_event" THEN c.event.timestamp ELSE c.request_log.timestamp
LastLine(f) == f.lines[Len(f.lines)][1]
AppendSteps == {"push_event_append", "push_request_append"}
TimestampAbsent(ts) == ts = None
TimestampFalsy(ts) == ts = None \/ ts = Some(EmptyText)

\* In this step: the record that a call prepares carries the store's clock,
\* read inside the call, when Omitted holds of the timestamp given, and the
\* timestamp given otherwise; and the record appended is the one prepared.
StoresTimestamp(Omitted(_)) ==
    \A p \in Callers :
      /\ (pc[p] = "idle" /\ pc'[p] \in AppendSteps)
           => /\ loc'[p].data[1].timestamp # None
              /\ loc'[p].data[1].timestamp =
                   IF Omitted(GivenTimestamp(call'[p]))
                   THEN Some(clock) ELSE GivenTimestamp(call'[p])
      /\ (pc[p] \in AppendSteps /\ pc'[p] = "ret" /\ result'[p].ok)
           => LET r == call[p].run_id[1] IN
              LastLine(IF call[p].kind = "push_event" THEN events'[r]
                       ELSE requests'[r]) = loc[p].data[1]

TimingIsBatchesInOrder ==
    \A r \in dirs : get_timing(r) = Ok(hist[r].tm)
PushTimingReturnsTotal ==
    \A p \in Callers :
      (pc[p] = "push_timing_write" /\ pc'[p] = "ret" /\ result'[p].ok)
      => LET r == call[p].run_id[1] IN
         /\ result'[p].val = Len(hist[r].tm) + Len(call[p].entries)
         /\ get_timing(r)' = Ok(hist[r].tm \o call[p].entries)
C23_TimingAccumulates == []TimingIsBatchesInOrder /\ [][PushTimingReturnsTotal]_vars
C23_Witness ==
    \E r \in dirs, p \in Callers :
      /\ get_timing(r) = Ok(<<"A", "B", "A">>)
      /\ pc[p] = "ret"
      /\ call[p].kind = "push_timing"
      /\ result[p] = Ok(3)

\* push_timing starts on run r, whose directory exists; and push_timing
\* completes.
PushTimingStarts(p, r) ==
    /\ pc[p] = "idle"
    /\ pc'[p] # "idle"
    /\ call'[p].kind = "push_timing"
    /\ call'[p].run_id = Some(r)
    /\ r \in dirs
PushTimingEnds(p, r) ==
    /\ pc[p] = "push_timing_write"
    /\ pc'[p] = "ret"
    /\ call[p].run_id = Some(r)
    /\ r \in dirs

\* A push_timing call that finds timing.json in one of the given states
\* goes on with the new entries alone, stores exactly them and returns
\* their number.
StartsFromEmpty(states) ==
    \A p \in Callers, r \in KnownRunIds :
      /\ (PushTimingStarts(p, r) /\ timing[r].st \in states)
           => /\ pc'[p] = "push_timing_write"
              /\ loc'[p].existing = call'[p].entries
      /\ (PushTimingEnds(p, r) /\ timing[r].st \in states)
           => /\ result'[p] = Ok(Len(call[p].entries))
              /\ timing'[r] = TimingFile(call[p].entries)

\* C24: push_timing succeeds when timing.json is missing, is no JSON, or is
\* the JSON of a value that is no array: it takes the old content as empty,
\* stores exactly the new entries and returns their count.
C24_PushTimingTolerant == [][StartsFromEmpty({"absent", "corrupt", "object"})]_vars

\* Run r exists with readable metadata and its timing.json is no JSON.
TimingUnparsable(r) ==
    /\ r \in dirs
    /\ meta[r].st = "ok"
    /\ timing[r].st = "corrupt"

\* C25: for a run whose timing.json is unparsable, get_timing, the load
\* that push_timing makes and the timing_count that get_run computes all
\* tolerate it or all fail.
C25_OneTimingPolicy ==
    \A r \in KnownRunIds :
      TimingUnparsable(r)
      => /\ get_timing(r).ok = LoadTiming(r).ok
         /\ get_timing(r).ok = get_run(r).ok

\* C28: a parse failure is reported to the caller by every operation but
\* the load of push_timing: get_timing and get_run raise for a run whose
\* timing.json could not be read, and get_run reports no count for it.
C28_FailuresPropagate ==
    \A r \in KnownRunIds :
      TimingUnparsable(r) => (~get_timing(r).ok /\ ~get_run(r).ok)

\* The answer that a caller holds to GET /api/files/{path}.
Browsed(p) == pc[p] = "ret" /\ call[p].kind = "get_data_file"
InsideVolume(l) == IsPrefix(DATA_PATH, l)

\* C26: a path with a parent-directory segment is answered 403, a path
\* whose resolved location is not inside the data root is answered 403, and
\* a listing or a content is given only of a location inside the data root.
C26_NothingServedOutside ==
    \A p \in Callers :
      Browsed(p)
      => LET path == call[p].path
             at == Resolve(JoinStart(path), path)
         IN /\ (\E i \in 1..Len(path) : path[i] = "..") => result[p].status = 403
            /\ ~InsideVolume(at) => result[p].status = 403
            /\ result[p].status = 200
                 => (result[p].target = Some(at) /\ InsideVolume(at))
C26_Witness ==
    /\ \E p \in Callers : /\ Browsed(p)
                            /\ call[p].path = <<"out", "passwd">>
                            /\ result[p].status = 403
    /\ left = 0

\* The statuses that metadata can hold, and the listed runs with status s.
ListedStatuses == {list_runs.val[i].status : i \in 1..Len(list_runs.val)}
ListedWith(s) == Cardinality({i \in 1..Len(list_runs.val) : list_runs.val[i].status = s})
RECURSIVE SumOver(_, _)
SumOver(f, keys) ==
    IF keys = {} THEN 0
    ELSE LET k == CHOOSE k \in keys : TRUE IN f[k] + SumOver(f, keys \ {k})

\* C27: get_stats answers whenever list_runs does, and then total_runs is
\* the length of the listing, by_status gives for every status the number
\* of listed runs that have it (its values add up to total_runs), and
\* latest_run is the id of the first listed run, or null for no runs.
C27_StatsFromListing ==
    /\ get_stats.ok = list_runs.ok
    /\ list_runs.ok
        => LET stats == get_stats.val IN
           /\ stats.total_runs = Len(list_runs.val)
           /\ DOMAIN stats.by_status = ListedStatuses
           /\ \A s \in ListedStatuses : stats.by_status[s] = ListedWith(s)
           /\ SumOver(stats.by_status, DOMAIN stats.by_status) = stats.total_runs
           /\ stats.latest_run = IF ListedIds = <<>> THEN None ELSE Some(ListedIds[1])
C27_Witness ==
    /\ get_stats.ok
    /\ get_stats.val.total_runs = 3
    /\ Cardinality(DOMAIN get_stats.val.by_status) = 2
    /\ \E s \in DOMAIN get_stats.val.by_status : get_stats.val.by_status[s] = 2
    /\ get_stats.val.latest_run # Some(ListedIds[3])

\* What the storage answers to the GET endpoints on run r, and the HTTP
\* answer that is right for a storage answer.
StorageRead(endpoint, r) ==
    IF endpoint = "get_run" THEN get_run(r)
    ELSE IF endpoint = "get_events" THEN get_events(r)
    ELSE IF endpoint = "get_requests" THEN get_requests(r)
    ELSE get_timing(r)
ReadEndpoints == {"get_run", "get_events", "get_requests", "get_timing"}
MapsErrors(endpoint, res) ==
    LET resp == HttpResponse(endpoint, res) IN
    /\ (~res.ok /\ res.err = "FileNotFoundError") => resp.status = 404
    /\ (~res.ok /\ res.err # "FileNotFoundError")
         => (resp.status = 500 /\ resp.fields = {"error", "detail"})

\* C29: every run-scoped endpoint answers 404 when the storage raises
\* FileNotFoundError, and 500 with a body of the fields error and detail
\* when the storage fails in any other way.
C29_HttpErrorMapping ==
    /\ \A e \in ReadEndpoints, r \in KnownRunIds : MapsErrors(e, StorageRead(e, r))
    /\ \A p \in Callers :
         (pc[p] = "ret" /\ call[p].kind \in Endpoints) => MapsErrors(call[p].kind, result[p])

\* C30: the query of the request logs of an existing run, with no filter,
\* is answered 200 with total and matched both the number of request logs
\* pushed to the run.
C30_QueryCountsRequests ==
    \A r \in KnownRunIds :
      (r \in dirs /\ hist[r].created > 0 /\ get_requests(r).ok)
      => LET resp == QueryRequests(r) IN
         /\ resp.status = 200
         /\ resp.total = Len(hist[r].rq)
         /\ resp.matched = Len(hist[r].rq)

\* C31: a delete_run that succeeds, whatever name it was given, removes
\* the directory of one run and nothing else: runs/ itself stays, and the
\* metadata, events, requests and timing of every other run are as before.
C31_DeleteRemovesOneRun ==
    [][\A p \in Callers :
          (/\ pc[p] = "idle"
           /\ pc'[p] = "ret"
           /\ call'[p].kind = "delete_run"
           /\ result'[p].ok)
              => /\ root' = root
                 /\ Cardinality(dirs \ dirs') = 1
                 /\ \A r \in dirs' :
                      /\ r \in dirs
                      /\ meta'[r] = meta[r]
                      /\ events'[r] = events[r]
                      /\ requests'[r] = requests[r]
                      /\ timing'[r] = timing[r]]_vars

\* C32: no operation given ".." as run id makes meta.json, events.jsonl,
\* requests.jsonl or timing.json in the data path, outside runs/.
C32_StaysInsideRuns ==
    /\ meta[DataDir].st = "absent"
    /\ ~events[DataDir].exists
    /\ ~requests[DataDir].exists
    /\ timing[DataDir].st = "absent"

\* C33: outside a create_run in progress, get_events, get_requests and
\* get_timing succeed on a run id only if get_run succeeds on it, and so do
\* push_event, push_request and push_timing that have returned.
C33_OperationsAgreeOnExistence ==
    /\ \A r \in KnownRunIds :
         (~CreateInFlight(r)
          /\ (get_events(r).ok \/ get_requests(r).ok \/ get_timing(r).ok))
         => get_run(r).ok
    /\ \A p \in Callers :
         (pc[p] = "ret" /\ call[p].kind \in PushKinds /\ result[p].ok)
         => get_run(call[p].run_id[1]).ok

\* C34: an update_run that returns leaves run_id, target, mode, created and
\* description of the stored metadata as they were, leaves status_message
\* as it was when no message was given and summary as it was when no
\* summary was given, and leaves the run's events, requests and timing as
\* they were.
UpdateReturns(p) ==
    /\ pc[p] = "update_write"
    /\ pc'[p] = "ret"
    /\ result'[p].ok
C34_UpdateFrame ==
    [][\A p \in Callers :
          UpdateReturns(p)
          => LET r == call[p].run_id[1]
                 old == meta[r].data
                 new == meta'[r].data
             IN /\ meta'[r].st = "ok"
                /\ new.run_id = old.run_id
                /\ new.target = old.target
                /\ new.mode = old.mode
                /\ new.created = old.created
                /\ new.description = old.description
                /\ new.status = call[p].status
                /\ call[p].message = None => new.status_message = old.status_message
                /\ call[p].summary = None => new.summary = old.summary
                /\ events' = events
                /\ requests' = requests
                /\ timing' = timing
                /\ \A q \in KnownRunIds \ {r} : meta'[q] = meta[q]]_vars
C34_Witness ==
    \E p \in Callers :
      /\ pc[p] = "ret"
      /\ call[p].kind = "update_run"
      /\ result[p].ok
      /\ call[p].summary = None
      /\ meta[call[p].run_id[1]].data.summary = Some(SummaryOk)
      /\ meta[call[p].run_id[1]].data.status_message = Some("m")
      /\ meta[call[p].run_id[1]].data.updated > meta[call[p].run_id[1]].data.created

\* C35: a call of get_run, list_runs, get_events, get_requests, get_timing
\* or get_stats leaves every file as it was, and what it returns is what
\* the same read returns in the state it leaves, hence what a second read
\* returns when nothing was written between the two.
ReadReturns(p) ==
    /\ pc[p] = "idle"
    /\ pc'[p] = "ret"
    /\ call'[p].kind \in ReadKinds
ReadAgain(p) ==
    (pc[p] = "ret" /\ call[p].kind \in ReadKinds)
    => result[p] = ReadResult(call[p].kind, call[p].run_id[1])
C35_ReadsChangeNothing ==
    /\ [](\A p \in Callers : ReadAgain(p))
    /\ [][\A p \in Callers : ReadReturns(p) => fs' = fs]_vars
C35_Witness ==
    \E p \in Callers :
      /\ pc[p] = "ret"
      /\ call[p].kind = "get_events"
      /\ result[p].ok
      /\ Len(result[p].val) = 1
      /\ left = 0

\* C36: a create_run that has entered its collision loop returns or raises:
\* the loop has made no more retries than there are run directories, and
\* the call comes to its end.
C36_CreateTerminates ==
    /\ [](\A p \in Callers :
            pc[p] = "create_exists"
                => loc[p].counter - FirstCounter <= Cardinality(dirs))
    /\ \A p \in Callers :
         (pc[p] = "create_exists")
             ~> (pc[p] = "ret" /\ call[p].kind = "create_run")
C36_Witness ==
    \E p \in Callers :
      /\ Returned(p, "create_run")
      /\ Len(result[p].val.run_id) = 2
      /\ result[p].val.run_id[2] >= 2
      /\ Cardinality(dirs) >= 3

\* C37: when two create_run calls have both found the same run id free, the
\* one whose mkdir comes second raises FileExistsError and changes no file
\* or directory, and no run id is ever held by two create_run calls that
\* got past mkdir.
CreatedBy(p, r) ==
    \/ /\ pc[p] \in {"create_reports", "create_write"}
       /\ loc[p].run_id = Some(r)
    \/ /\ Returned(p, "create_run")
       /\ result[p].val.run_id = r
LosesRace(p) ==
    /\ pc[p] = "create_mkdir"
    /\ pc'[p] # "create_mkdir"
    /\ loc[p].run_id[1] \in dirs
C37_RaceHasOneWinner ==
    /\ [](\A r \in KnownRunIds : \A p, q \in Callers :
            (CreatedBy(p, r) /\ CreatedBy(q, r)) => p = q)
    /\ [][\A p \in Callers :
            LosesRace(p)
                => /\ result'[p] = Raise("FileExistsError")
                   /\ pc'[p] = "ret"
                   /\ fs' = fs]_vars
C37_Witness ==
    \E p, q \in Callers :
      /\ p # q
      /\ pc[p] = "ret"
      /\ call[p].kind = "create_run"
      /\ result[p] = Raise("FileExistsError")
      /\ Returned(q, "create_run")
      /\ result[q].val.run_id = loc[p].run_id[1]
      /\ meta[loc[p].run_id[1]].st = "ok"
      /\ loc[p].run_id[1] \in reports

\* C38: a path none of whose segments is ".." and whose resolved location
\* exists inside the data root is not answered 403.
C38_OnlyParentSegmentsRejected ==
    \A p \in Callers :
      Browsed(p)
      => LET path == call[p].path
             at == Resolve(JoinStart(path), path)
         IN (/\ \A i \in 1..Len(path) : path[i] # ".."
             /\ InsideVolume(at)
             /\ at \in Directories \cup TextFiles \cup BinaryFiles)
            => result[p].status # 403


====
